---------------------------- MODULE Spec2Model ----------------------------
(***************************************************************************)
(* Model of the napkin backend (src/backend): the repository-reference     *)
(* parser and the repository context summarizer of github_analyzer.py, the *)
(* four request handlers of main.py and the text-generation client of      *)
(* gemini_client.py.                                                       *)
(*                                                                         *)
(* Strings are sequences of one-character strings, so that strip, rstrip,  *)
(* the two regular expressions, rsplit, split, join, count and sorted are  *)
(* computed character by character as Python computes them.                *)
(***************************************************************************)
EXTENDS Integers, Sequences, FiniteSets, TLC

VARIABLES
    _client,        \* main.py:26, the cached client: "None" or "GeminiClient"
    api_key_set,    \* whether os.getenv("GEMINI_API_KEY") is a non-empty string
    pc,             \* where the request in flight stands: "idle", "meta", "tree", "files", "llm", "done"
    op,             \* the handler serving it: "none", "analyze", "transform", "generate", "github_analyze"
    request,        \* the request body and path parameters
    parsed,         \* owner, repo of fetch_repo_context (line 37)
    default_branch, \* line 48
    all_paths,      \* line 60
    key_file_paths, \* line 61
    pending,        \* the tasks of line 73 the loop of line 74 has not reached yet
    file_contents,  \* line 70: the dict, as its items in insertion order
    repo_context,   \* what fetch_repo_context returned, once it has
    host_calls,     \* the GET requests sent to api.github.com in this request and their answers, in order
    llm_calls,      \* the generate_content calls made in this request and their answers, in order
    response,       \* the HTTP answer of the request
    fn_pc,      \* pure-function harness: "idle", "in" (input drawn) or "out" (function applied)
    fn_url,     \* pure-function harness: the string handed to parse_github_url
    fn_parsed,  \* pure-function harness: what parse_github_url returned for fn_url
    fn_tree,    \* pure-function harness: the tree handed to the selection and listing code
    fn_summary  \* pure-function harness: the key files and the listing computed for fn_tree

fnVars == <<fn_pc, fn_url, fn_parsed, fn_tree, fn_summary>>
ghVars == <<parsed, default_branch, all_paths, key_file_paths, pending, file_contents,
            repo_context, host_calls>>
reqVars == <<_client, api_key_set, pc, op, request, llm_calls, response>>
vars == <<_client, api_key_set, pc, op, request, parsed, default_branch, all_paths,
          key_file_paths, pending, file_contents, repo_context, host_calls, llm_calls,
          response, fn_pc, fn_url, fn_parsed, fn_tree, fn_summary>>

(***************************************************************************)
(* Bounds of the model.                                                    *)
(***************************************************************************)
\* longest owner/name body (in characters) of a drawn reference string
MaxBody == 3
\* most entries of a tree drawn from the entry pool
MaxTree == 3
\* most entries of a tree of nested key files
MaxNested == 12
\* most entries of a tree the repository host answers with in a request
MaxHostTree == 2
\* most shapes of a request's existing_shapes
MaxShapes == 2
\* most operations in a batch the text-generation backend answers with
MaxBatch == 2

(***************************************************************************)
(* Characters and string helpers.                                          *)
(***************************************************************************)
\* code points of the characters the model uses; Python compares str by code point
Ord ==
    (" " :> 32) @@ ("-" :> 45) @@ ("." :> 46) @@ ("/" :> 47) @@ (":" :> 58) @@
    ("A" :> 65) @@ ("C" :> 67) @@ ("D" :> 68) @@ ("E" :> 69) @@ ("M" :> 77) @@
    ("P" :> 80) @@ ("R" :> 82) @@ ("a" :> 97) @@ ("b" :> 98) @@ ("c" :> 99) @@
    ("d" :> 100) @@ ("e" :> 101) @@ ("f" :> 102) @@ ("g" :> 103) @@ ("h" :> 104) @@
    ("i" :> 105) @@ ("j" :> 106) @@ ("k" :> 107) @@ ("l" :> 108) @@ ("m" :> 109) @@
    ("n" :> 110) @@ ("o" :> 111) @@ ("p" :> 112) @@ ("q" :> 113) @@ ("r" :> 114) @@
    ("s" :> 115) @@ ("t" :> 116) @@ ("u" :> 117) @@ ("v" :> 118) @@ ("w" :> 119) @@
    ("x" :> 120) @@ ("y" :> 121)

\* the characters str.strip() removes, among those of the model
Whitespace == {" "}

\* s.startswith(p)
StartsWith(s, p) ==
    /\ Len(s) >= Len(p)
    /\ SubSeq(s, 1, Len(p)) = p

\* s.endswith(p)
EndsWith(s, p) ==
    /\ Len(s) >= Len(p)
    /\ SubSeq(s, Len(s) - Len(p) + 1, Len(s)) = p

\* s[n:]
DropFirst(s, n) == SubSeq(s, n + 1, Len(s))

\* s[:-n]
DropLast(s, n) == SubSeq(s, 1, Len(s) - n)

\* s.count(c) for a one-character c
Count(s, c) == Cardinality({i \in 1..Len(s) : s[i] = c})

\* s.rstrip(chars)
RECURSIVE RStrip(_, _)
RStrip(s, chars) ==
    IF s # <<>> /\ s[Len(s)] \in chars THEN RStrip(DropLast(s, 1), chars) ELSE s

\* s.lstrip(chars)
RECURSIVE LStrip(_, _)
LStrip(s, chars) ==
    IF s # <<>> /\ s[1] \in chars THEN LStrip(Tail(s), chars) ELSE s

\* s.strip()
Strip(s) == RStrip(LStrip(s, Whitespace), Whitespace)

(***************************************************************************)
(* parse_github_url (github_analyzer.py:21-32).                            *)
(***************************************************************************)
HttpsScheme == <<"h", "t", "t", "p", "s", ":", "/", "/">>
HttpScheme == <<"h", "t", "t", "p", ":", "/", "/">>
WwwDot == <<"w", "w", "w", ".">>
GithubHost == <<"g", "i", "t", "h", "u", "b", ".", "c", "o", "m", "/">>
DotGit == <<".", "g", "i", "t">>

\* the failure of a match (None) or a raised ValueError
NoMatch == [ok |-> FALSE, owner |-> <<>>, repo |-> <<>>]

\* (?:https?://)? : the scheme is consumed when present; the text cannot match
\* the rest of the pattern from an "h", so there is nothing to backtrack to
SkipScheme(s) ==
    IF StartsWith(s, HttpsScheme) THEN DropFirst(s, Len(HttpsScheme))
    ELSE IF StartsWith(s, HttpScheme) THEN DropFirst(s, Len(HttpScheme))
    ELSE s

\* (?:www\.)? : likewise
SkipWww(s) == IF StartsWith(s, WwwDot) THEN DropFirst(s, Len(WwwDot)) ELSE s

\* ([^/]+)/(NAME)$ on s: one "/" only, both sides non-empty
SplitPair(s) ==
    IF Count(s, "/") # 1 THEN NoMatch
    ELSE LET i == CHOOSE k \in 1..Len(s) : s[k] = "/"
         IN  IF i = 1 \/ i = Len(s) THEN NoMatch
             ELSE [ok |-> TRUE, owner |-> SubSeq(s, 1, i - 1), repo |-> SubSeq(s, i + 1, Len(s))]

\* ([^/]+?)(?:\.git)?$ : the lazy group takes the shortest non-empty name, so a
\* trailing ".git" goes to the optional group unless the name would be empty
LazyName(n) == IF EndsWith(n, DotGit) /\ Len(n) > Len(DotGit) THEN DropLast(n, Len(DotGit)) ELSE n

\* re.match(r"(?:https?://)?(?:www\.)?github\.com/([^/]+)/([^/]+?)(?:\.git)?$", url)
MatchUrlForm(url) ==
    LET s == SkipWww(SkipScheme(url))
    IN  IF ~StartsWith(s, GithubHost) THEN NoMatch
        ELSE LET m == SplitPair(DropFirst(s, Len(GithubHost)))
             IN  IF m.ok THEN [m EXCEPT !.repo = LazyName(m.repo)] ELSE NoMatch

\* re.match(r"^([^/]+)/([^/]+)$", url)
MatchPlainForm(url) == SplitPair(url)

parse_github_url(url_in) ==
    LET url == RStrip(Strip(url_in), {"/"})
        m1 == MatchUrlForm(url)
    IN  IF m1.ok THEN m1 ELSE MatchPlainForm(url)

(***************************************************************************)
(* Reference strings drawn as inputs.                                      *)
(***************************************************************************)
\* all sequences over S of length at most n
SeqsUpTo(S, n) == UNION {[1..k -> S] : k \in 0..n}

UrlPrefixes ==
    { <<>>, GithubHost, WwwDot \o GithubHost, HttpsScheme \o GithubHost,
      HttpScheme \o GithubHost, HttpsScheme \o WwwDot \o GithubHost }

UrlSuffixes == { <<>>, DotGit, <<"/">>, DotGit \o <<"/">>, <<" ">> }

BodyChars == {"o", "r", "/", " "}

Urls ==
    { p \o b \o s : p \in UrlPrefixes, b \in SeqsUpTo(BodyChars, MaxBody), s \in UrlSuffixes }

(***************************************************************************)
(* Key-file selection and directory listing of fetch_repo_context          *)
(* (github_analyzer.py:60-73 and 100-114).                                 *)
(***************************************************************************)
_KEY_FILES ==
    { <<"p", "a", "c", "k", "a", "g", "e", ".", "j", "s", "o", "n">>,
      <<"t", "s", "c", "o", "n", "f", "i", "g", ".", "j", "s", "o", "n">>,
      <<"v", "i", "t", "e", ".", "c", "o", "n", "f", "i", "g", ".", "t", "s">>,
      <<"v", "i", "t", "e", ".", "c", "o", "n", "f", "i", "g", ".", "j", "s">>,
      <<"n", "e", "x", "t", ".", "c", "o", "n", "f", "i", "g", ".", "j", "s">>,
      <<"n", "e", "x", "t", ".", "c", "o", "n", "f", "i", "g", ".", "t", "s">>,
      <<"n", "e", "x", "t", ".", "c", "o", "n", "f", "i", "g", ".", "m", "j", "s">>,
      <<"r", "e", "q", "u", "i", "r", "e", "m", "e", "n", "t", "s", ".", "t", "x", "t">>,
      <<"p", "y", "p", "r", "o", "j", "e", "c", "t", ".", "t", "o", "m", "l">>,
      <<"s", "e", "t", "u", "p", ".", "p", "y">>,
      <<"P", "i", "p", "f", "i", "l", "e">>,
      <<"C", "a", "r", "g", "o", ".", "t", "o", "m", "l">>,
      <<"g", "o", ".", "m", "o", "d">>,
      <<"b", "u", "i", "l", "d", ".", "g", "r", "a", "d", "l", "e">>,
      <<"p", "o", "m", ".", "x", "m", "l">>,
      <<"D", "o", "c", "k", "e", "r", "f", "i", "l", "e">>,
      <<"d", "o", "c", "k", "e", "r", "-", "c", "o", "m", "p", "o", "s", "e", ".", "y", "m", "l">>,
      <<"d", "o", "c", "k", "e", "r", "-", "c", "o", "m", "p", "o", "s", "e", ".", "y", "a", "m", "l">>,
      <<"M", "a", "k", "e", "f", "i", "l", "e">>,
      <<".", "e", "n", "v", ".", "e", "x", "a", "m", "p", "l", "e">>,
      <<"R", "E", "A", "D", "M", "E", ".", "m", "d">> }

\* key_file_paths[:10]
MaxKeyFiles == 10
\* file_list[:200]
MaxListing == 200
\* depth <= 3
MaxDepth == 3
\* p.split("/")[:3]
ParentSegments == 3

Min(a, b) == IF a <= b THEN a ELSE b

\* s[:n]
Take(s, n) == SubSeq(s, 1, Min(n, Len(s)))

\* s.split("/")
RECURSIVE Split(_)
Split(s) ==
    IF Count(s, "/") = 0 THEN <<s>>
    ELSE LET i == CHOOSE k \in 1..Len(s) : s[k] = "/" /\ \A j \in 1..(k - 1) : s[j] # "/"
         IN  <<SubSeq(s, 1, i - 1)>> \o Split(DropFirst(s, i))

\* "/".join(segs)
RECURSIVE Join(_)
Join(segs) ==
    IF segs = <<>> THEN <<>>
    ELSE IF Len(segs) = 1 THEN segs[1]
    ELSE segs[1] \o <<"/">> \o Join(Tail(segs))

\* path.rsplit("/", 1)[-1]
Basename(path) ==
    LET segs == Split(path)
    IN  segs[Len(segs)]

\* a < b on str: code point by code point, a proper prefix is smaller
RECURSIVE StrLess(_, _)
StrLess(a, b) ==
    IF a = <<>> THEN b # <<>>
    ELSE IF b = <<>> THEN FALSE
    ELSE IF a[1] = b[1] THEN StrLess(Tail(a), Tail(b))
    ELSE Ord[a[1]] < Ord[b[1]]

\* sorted(paths): stable, ascending
RECURSIVE InsertSorted(_, _)
InsertSorted(x, sorted) ==
    IF sorted = <<>> THEN <<x>>
    ELSE IF StrLess(x, sorted[1]) THEN <<x>> \o sorted
    ELSE <<sorted[1]>> \o InsertSorted(x, Tail(sorted))

RECURSIVE Sorted(_)
Sorted(paths) ==
    IF paths = <<>> THEN <<>>
    ELSE InsertSorted(paths[Len(paths)], Sorted(DropLast(paths, 1)))

\* all_paths of lines 60-64: every item's path, in tree order
AllPaths(tree) == [i \in 1..Len(tree) |-> tree[i].path]

\* variant of IsKeyFile: the whole path compared, so only root files match
IsKeyFile_root_only(item) == item.path \in _KEY_FILES /\ item.type = "blob"

\* the test of line 66
IsKeyFile(item) == Basename(item.path) \in _KEY_FILES /\ item.type = "blob"

\* key_file_paths of lines 61-67: the key files, in tree order
RECURSIVE KeyFilePaths(_)
KeyFilePaths(tree) ==
    IF tree = <<>> THEN <<>>
    ELSE (IF IsKeyFile(tree[1]) THEN <<tree[1].path>> ELSE <<>>) \o KeyFilePaths(Tail(tree))

\* variant of Tasks: the limit of 10 files forgotten
Tasks_uncapped(key_files) == key_files

\* tasks of line 73
Tasks(key_files) == Take(key_files, MaxKeyFiles)

Ellipsis == <<"/", ".", ".", ".">>

\* variant of Parent: the ancestor cut after two segments
Parent_two_segments(p) == Join(Take(Split(p), 2)) \o Ellipsis

\* parent of line 109
Parent(p) == Join(Take(Split(p), ParentSegments)) \o Ellipsis

\* the loop of lines 101-112 over the rest of the sorted paths
RECURSIVE FileListFrom(_, _, _)
FileListFrom(paths, dirs_seen, file_list) ==
    IF paths = <<>> THEN file_list
    ELSE LET p == paths[1]
             depth == Count(p, "/")
         IN  IF depth <= MaxDepth
                THEN FileListFrom(Tail(paths), dirs_seen, Append(file_list, p))
             ELSE IF Parent(p) \notin dirs_seen
                THEN FileListFrom(Tail(paths), dirs_seen \cup {Parent(p)}, Append(file_list, Parent(p)))
             ELSE FileListFrom(Tail(paths), dirs_seen, file_list)

\* file_list of lines 101-112
FileList(paths) == FileListFrom(Sorted(paths), {}, <<>>)

\* the lines of the directory section, line 114
Listing(paths) == Take(FileList(paths), MaxListing)

(***************************************************************************)
(* Trees drawn as inputs: a tree is a sequence of items with distinct      *)
(* paths, as a git tree has.                                               *)
(***************************************************************************)
ReadmeName == <<"R", "E", "A", "D", "M", "E", ".", "m", "d">>
PackageJson == <<"p", "a", "c", "k", "a", "g", "e", ".", "j", "s", "o", "n">>

EntryPool ==
    { [path |-> ReadmeName, type |-> "blob"],
      [path |-> <<"r", "e", "a", "d", "m", "e", ".", "m", "d">>, type |-> "blob"],
      [path |-> PackageJson, type |-> "blob"],
      [path |-> <<"a", "/">> \o ReadmeName, type |-> "tree"],
      [path |-> <<"a", "/", "b", "/", "c", "/", ".", ".", ".">>, type |-> "blob"],
      [path |-> <<"a", "/", "b", "/", "c", "/", "d", "/", "e">>, type |-> "blob"],
      [path |-> <<"a", "/", "b", "/", "c", "/", "d", "/">> \o ReadmeName, type |-> "blob"] }

\* the trees of at most n distinct pool entries, in every order
PoolTrees(n) ==
    { t \in SeqsUpTo(EntryPool, n) : \A i, j \in 1..Len(t) : i # j => t[i] # t[j] }

\* "a/" repeated n times
RECURSIVE Nest(_)
Nest(n) == IF n = 0 THEN <<>> ELSE <<"a", "/">> \o Nest(n - 1)

\* n key files: package.json nested 0..n-2 directories deep, and a README.md
\* at depth n-1 placed at position k
NestedTree(n, k) ==
    [i \in 1..n |->
        IF i = k THEN [path |-> Nest(n - 1) \o ReadmeName, type |-> "blob"]
        ELSE [path |-> Nest(IF i < k THEN i - 1 ELSE i - 2) \o PackageJson, type |-> "blob"]]

NestedTrees == UNION { { NestedTree(n, k) : k \in 1..n } : n \in 1..MaxNested }

FnTrees == PoolTrees(MaxTree) \cup NestedTrees

NoSummary == [key_file_paths |-> <<>>, tasks |-> <<>>, listing |-> <<>>]

(***************************************************************************)
(* The text-generation client (gemini_client.py) and the client cache of   *)
(* main.py.                                                                *)
(***************************************************************************)
\* main.py:36
VALID_MODES == {"label", "cleanup", "suggest", "explain", "optimize"}

\* the keys of PROMPTS (prompts.py:1-62)
PROMPTS == {"label", "cleanup", "suggest", "explain", "optimize"}

\* Max bytes to read from a single file
_MAX_FILE_BYTES == 4000

NoRequest ==
    [mode |-> "", image_base64 |-> "None", prompt |-> "", existing_shapes |-> <<>>,
     repo_url |-> <<>>]

NoResponse == [status |-> 0, result |-> <<>>]

NoContext ==
    [built |-> FALSE, owner |-> <<>>, repo |-> <<>>, default_branch |-> <<>>,
     listing |-> <<>>, key_files |-> <<>>]

NoPrompt ==
    [template |-> "", image |-> FALSE, user_prompt |-> "", existing_shapes |-> <<>>,
     next_id |-> <<>>, repo_context |-> NoContext]

\* raise HTTPException(status_code=status, ...)
HTTPException(status) == [status |-> status, result |-> <<>>]

\* return {"result": result, ...}
Ok(result) == [status |-> 200, result |-> result]

\* GeminiClient() raises ValueError (gemini_client.py:15-16) when get_client has
\* no cached client and the key is not set
GetClientRaises == _client = "None" /\ ~api_key_set

\* _client after a get_client() that returned
ClientAfterGet == "GeminiClient"

\* base64.b64decode(image_base64) raises binascii.Error on text that is no base64
B64DecodeRaises(image_base64) == image_base64 = "garbage"

\* the decoded bytes: "" stands for b"" (and for None, which is as falsy)
ImageBytes(image_base64) == IF image_base64 = "png" THEN "bytes" ELSE ""

Max(S) == CHOOSE m \in S : \A x \in S : x <= m

ShapeIds(shapes) == {shapes[i].id : i \in 1..Len(shapes)}

\* line 50
NextId(existing_shapes) ==
    IF existing_shapes # <<>> THEN Max(ShapeIds(existing_shapes)) + 1 ELSE 0

\* contents of _generate_sync, lines 48-57
GenerateContents(user_prompt, image_bytes, existing_shapes) ==
    IF image_bytes # "" /\ existing_shapes # <<>>
        THEN [NoPrompt EXCEPT !.template = "GENERATE_WITH_CONTEXT_PROMPT",
                              !.image = TRUE,
                              !.user_prompt = user_prompt,
                              !.existing_shapes = existing_shapes,
                              !.next_id = <<NextId(existing_shapes)>>]
        ELSE [NoPrompt EXCEPT !.template = "GENERATE_PROMPT", !.user_prompt = user_prompt]

\* the smallest id the prompt tells the backend to give a new shape: the
\* {next_id} of "New shape ids MUST start from {next_id}" where the template
\* has the slot (prompts.py:178), else the "starting from 0" of the rules
\* every generation template carries (prompts.py:65 and 86)
MinNewShapeId(contents) ==
    IF contents.next_id # <<>> THEN contents.next_id[1] ELSE 0

\* contents of _analyze_sync, lines 30-38
AnalyzeContents(mode) == [NoPrompt EXCEPT !.template = mode, !.image = TRUE]

\* contents of _transform_sync, lines 71-75
TransformContents == [NoPrompt EXCEPT !.template = "TRANSFORM_PROMPT", !.image = TRUE]

\* contents of _analyze_repo_sync, lines 84-88
AnalyzeRepoContents(context) ==
    [NoPrompt EXCEPT !.template = "GITHUB_ARCHITECTURE_PROMPT", !.repo_context = context]

(***************************************************************************)
(* What the collaborators answer.                                          *)
(***************************************************************************)
\* a batch of shape operations, the text the backend answers a generation with
ShapeOps == [id : {1, 3}, action : {"add", "edit", "delete"}]

Batches == SeqsUpTo(ShapeOps, MaxBatch)

\* generate_content returns response.text, or raises
BackendOutcomes(texts) == {[ok |-> FALSE, text |-> <<>>]} \cup [ok : {TRUE}, text : texts]

PlainText == {<<>>}

HostFailures ==
    { [kind |-> "error", status |-> 0, json_ok |-> FALSE],
      [kind |-> "response", status |-> 301, json_ok |-> TRUE],
      [kind |-> "response", status |-> 404, json_ok |-> TRUE],
      [kind |-> "response", status |-> 200, json_ok |-> FALSE] }

HostSuccess == [kind |-> "response", status |-> 200, json_ok |-> TRUE]

\* the answers to GET /repos/{owner}/{repo}: default_branch <<>> is a body without the key
MetaResponses ==
    { [r |-> f, body |-> [default_branch |-> <<>>]] : f \in HostFailures } \cup
    { [r |-> HostSuccess, body |-> [default_branch |-> b]] : b \in {<<>>, <<"d", "e", "v">>} }

HostTrees == PoolTrees(MaxHostTree)

\* the answers to GET /repos/{owner}/{repo}/git/trees/{branch}?recursive=1
TreeResponses ==
    { [r |-> f, body |-> <<>>] : f \in HostFailures } \cup
    { [r |-> HostSuccess, body |-> t] : t \in HostTrees }

\* a text of n characters: the first takes w bytes, every other one byte
WideText(n, w) == [i \in 1..n |-> IF i = 1 THEN w ELSE 1]

\* decoded texts of a file, each character given by the bytes its UTF-8 encoding
\* takes: the empty text, and a text one character longer than the cut of line
\* 84 that starts with a two-byte character
FileTexts == { <<>>, WideText(_MAX_FILE_BYTES + 1, 2) }

\* the answers to GET /repos/{owner}/{repo}/contents/{path}: content is the
\* text its base64 encodes, the empty text for the empty string
FileResponses ==
    { [r |-> f, body |-> [encoding |-> "base64", content |-> <<>>]] : f \in HostFailures } \cup
    { [r |-> HostSuccess, body |-> [encoding |-> e, content |-> c]] :
        e \in {"base64", "none"}, c \in FileTexts }

\* response.raise_for_status()
RaisesForStatus(r) == r.status \notin 200..299

\* meta.get("default_branch", "main")
DefaultBranch(meta) ==
    IF meta.default_branch = <<>> THEN <<"m", "a", "i", "n">> ELSE meta.default_branch

\* content[:_MAX_FILE_BYTES]
Truncate(content) == Take(content, _MAX_FILE_BYTES)

\* variant of FileStored: the encoding of the body not looked at
FileStored_any_encoding(resp) ==
    /\ resp.r.kind = "response"
    /\ resp.r.status = 200
    /\ resp.r.json_ok
    /\ resp.body.content # <<>>

\* lines 80-84: whether the answer puts the file into file_contents
FileStored(resp) ==
    /\ resp.r.kind = "response"
    /\ resp.r.status = 200
    /\ resp.r.json_ok
    /\ resp.body.encoding = "base64"
    /\ resp.body.content # <<>>

\* lines 88-127: the summary text, as its parts
BuildSummary(ref, branch, paths, contents) ==
    [built |-> TRUE, owner |-> ref.owner, repo |-> ref.repo, default_branch |-> branch,
     listing |-> Listing(paths), key_files |-> contents]

\* one GET of the log: the URL by its parts, and the answer it got
HostCall(endpoint, ref, arg, resp) ==
    [endpoint |-> endpoint, owner |-> ref.owner, repo |-> ref.repo, arg |-> arg, resp |-> resp]

\* one generate_content call of the log: what was sent, and the answer it got
LlmCall(contents, gen) == [contents |-> contents, answer |-> gen]

(***************************************************************************)
(* Requests drawn as inputs.                                               *)
(***************************************************************************)
Modes == VALID_MODES \cup {"bogus"}

Images == {"", "png", "garbage"}

OptionalImages == {"None"} \cup Images

ExistingShapeLists == SeqsUpTo([id : 0..2], MaxShapes)

RepoUrls ==
    { <<"o", "/", "r">>,
      HttpsScheme \o GithubHost \o <<"o", "/", "r">>,
      <<"o", "/", "r">> \o DotGit,
      <<"n", "o", "t", " ", "a", " ", "u", "r", "l">>,
      <<"/", "l", "e", "a", "d", "i", "n", "g", "/", "s", "l", "a", "s", "h">> }

\* the request machine at rest, as the pure-function harnesses leave it
RequestIdle ==
    /\ _client = "None"
    /\ api_key_set = FALSE
    /\ pc = "idle"
    /\ op = "none"
    /\ request = NoRequest
    /\ parsed = NoMatch
    /\ default_branch = <<>>
    /\ all_paths = <<>>
    /\ key_file_paths = <<>>
    /\ pending = <<>>
    /\ file_contents = <<>>
    /\ repo_context = NoContext
    /\ host_calls = <<>>
    /\ llm_calls = <<>>
    /\ response = NoResponse

(***************************************************************************)
(* The request handlers of main.py.                                        *)
(***************************************************************************)
Init ==
    /\ _client = "None"
    /\ api_key_set \in BOOLEAN
    /\ pc = "idle"
    /\ op = "none"
    /\ request = NoRequest
    /\ parsed = NoMatch
    /\ default_branch = <<>>
    /\ all_paths = <<>>
    /\ key_file_paths = <<>>
    /\ pending = <<>>
    /\ file_contents = <<>>
    /\ repo_context = NoContext
    /\ host_calls = <<>>
    /\ llm_calls = <<>>
    /\ response = NoResponse
    /\ fn_pc = "idle"
    /\ fn_url = <<>>
    /\ fn_parsed = NoMatch
    /\ fn_tree = <<>>
    /\ fn_summary = NoSummary

\* get_client() and one generate_content call inside a handler whose except
\* clause answers 500: the client cache, the calls made and the answer
CallBackend(decode_raises, contents, gen) ==
    IF GetClientRaises
        THEN /\ response' = HTTPException(500)
             /\ UNCHANGED <<_client, llm_calls>>
    ELSE IF decode_raises
        THEN /\ response' = HTTPException(500)
             /\ _client' = ClientAfterGet
             /\ UNCHANGED llm_calls
    ELSE /\ _client' = ClientAfterGet
         /\ llm_calls' = Append(llm_calls, LlmCall(contents, gen))
         /\ response' = IF gen.ok THEN Ok(gen.text) ELSE HTTPException(500)

\* POST /api/analyze/{mode}
analyze(mode, image_base64, gen) ==
    /\ pc = "idle"
    /\ pc' = "done"
    /\ op' = "analyze"
    /\ request' = [NoRequest EXCEPT !.mode = mode, !.image_base64 = image_base64]
    /\ IF mode \notin VALID_MODES
          THEN /\ response' = HTTPException(400)
               /\ UNCHANGED <<_client, llm_calls>>
          ELSE CallBackend(B64DecodeRaises(image_base64) \/ mode \notin PROMPTS,
                           AnalyzeContents(mode), gen)
    /\ UNCHANGED <<api_key_set, ghVars, fnVars>>

\* POST /api/transform
transform(image_base64, gen) ==
    /\ pc = "idle"
    /\ pc' = "done"
    /\ op' = "transform"
    /\ request' = [NoRequest EXCEPT !.image_base64 = image_base64]
    /\ CallBackend(B64DecodeRaises(image_base64), TransformContents, gen)
    /\ UNCHANGED <<api_key_set, ghVars, fnVars>>

\* POST /api/generate
generate(prompt, image_base64, existing_shapes, gen) ==
    /\ pc = "idle"
    /\ pc' = "done"
    /\ op' = "generate"
    /\ request' = [NoRequest EXCEPT !.prompt = prompt, !.image_base64 = image_base64,
                                    !.existing_shapes = existing_shapes]
    /\ CallBackend(image_base64 \notin {"None", ""} /\ B64DecodeRaises(image_base64),
                   GenerateContents(prompt, ImageBytes(image_base64), existing_shapes), gen)
    /\ UNCHANGED <<api_key_set, ghVars, fnVars>>

\* variant of github_analyze: the parse failure does not end the request
github_analyze_no_raise(repo_url) ==
    /\ pc = "idle"
    /\ op' = "github_analyze"
    /\ request' = [NoRequest EXCEPT !.repo_url = repo_url]
    /\ parsed' = parse_github_url(repo_url)
    /\ pc' = "meta"
    /\ UNCHANGED <<_client, api_key_set, llm_calls, response, default_branch, all_paths,
                   key_file_paths, pending, file_contents, repo_context, host_calls, fnVars>>

\* POST /api/github-analyze, up to the first request of fetch_repo_context:
\* the ValueError of parse_github_url is answered 400 (main.py:94-95)
github_analyze(repo_url) ==
    /\ pc = "idle"
    /\ op' = "github_analyze"
    /\ request' = [NoRequest EXCEPT !.repo_url = repo_url]
    /\ parsed' = parse_github_url(repo_url)
    /\ IF parsed'.ok
          THEN /\ pc' = "meta"
               /\ UNCHANGED response
          ELSE /\ pc' = "done"
               /\ response' = HTTPException(400)
    /\ UNCHANGED <<_client, api_key_set, llm_calls, default_branch, all_paths,
                   key_file_paths, pending, file_contents, repo_context, host_calls, fnVars>>

\* what github_analyze answers to an exception out of fetch_repo_context:
\* 400 to a ValueError, which json.JSONDecodeError is (main.py:94-97)
HostFailureStatus(r) ==
    IF r.kind = "response" /\ ~RaisesForStatus(r) /\ ~r.json_ok THEN 400 ELSE 500

\* variant of HostFailed: raise_for_status() left out
HostFailed_no_raise_for_status(r) == r.kind = "error" \/ ~r.json_ok

\* the request raised: a transport error, raise_for_status(), or .json()
HostFailed(r) == r.kind = "error" \/ RaisesForStatus(r) \/ ~r.json_ok

\* lines 43-50: the metadata request and its answer
fetch_meta(resp) ==
    /\ pc = "meta"
    /\ host_calls' = Append(host_calls, HostCall("repos", parsed, <<>>, resp))
    /\ IF HostFailed(resp.r)
          THEN /\ pc' = "done"
               /\ response' = HTTPException(HostFailureStatus(resp.r))
               /\ UNCHANGED default_branch
          ELSE /\ pc' = "tree"
               /\ default_branch' = DefaultBranch(resp.body)
               /\ UNCHANGED response
    /\ UNCHANGED <<_client, api_key_set, op, request, llm_calls, parsed, all_paths,
                   key_file_paths, pending, file_contents, repo_context, fnVars>>

\* lines 53-73: the tree request, its answer and the selection of the key files;
\* with no key file the summary is built at once (lines 88-127)
fetch_tree(resp) ==
    /\ pc = "tree"
    /\ host_calls' = Append(host_calls, HostCall("trees", parsed, default_branch, resp))
    /\ IF HostFailed(resp.r)
          THEN /\ pc' = "done"
               /\ response' = HTTPException(HostFailureStatus(resp.r))
               /\ UNCHANGED <<all_paths, key_file_paths, pending, repo_context>>
          ELSE /\ all_paths' = AllPaths(resp.body)
               /\ key_file_paths' = KeyFilePaths(resp.body)
               /\ pending' = Tasks(key_file_paths')
               /\ IF pending' # <<>>
                     THEN /\ pc' = "files"
                          /\ UNCHANGED repo_context
                     ELSE /\ pc' = "llm"
                          /\ repo_context' = BuildSummary(parsed, default_branch, all_paths', <<>>)
               /\ UNCHANGED response
    /\ UNCHANGED <<_client, api_key_set, op, request, llm_calls, parsed, default_branch,
                   file_contents, fnVars>>

\* lines 74-86: the request for the next key file and its answer; after the
\* last one the summary is built (lines 88-127)
fetch_file(resp) ==
    /\ pc = "files"
    /\ pending # <<>>
    /\ host_calls' = Append(host_calls, HostCall("contents", parsed, Head(pending), resp))
    /\ file_contents' =
          IF FileStored(resp)
              THEN Append(file_contents, [path |-> Head(pending), content |-> Truncate(resp.body.content)])
              ELSE file_contents
    /\ pending' = Tail(pending)
    /\ IF pending' = <<>>
          THEN /\ pc' = "llm"
               /\ repo_context' = BuildSummary(parsed, default_branch, all_paths, file_contents')
          ELSE UNCHANGED <<pc, repo_context>>
    /\ UNCHANGED <<_client, api_key_set, op, request, llm_calls, response, parsed,
                   default_branch, all_paths, key_file_paths, fnVars>>

\* variant of analyze_repo: a failed backend call is made once more
analyze_repo_retry(gen) ==
    /\ pc = "llm"
    /\ pc' = "done"
    /\ IF GetClientRaises
          THEN /\ response' = HTTPException(400)
               /\ UNCHANGED <<_client, llm_calls>>
          ELSE /\ _client' = ClientAfterGet
               /\ llm_calls' =
                     IF gen.ok
                         THEN Append(llm_calls, LlmCall(AnalyzeRepoContents(repo_context), gen))
                         ELSE llm_calls \o << LlmCall(AnalyzeRepoContents(repo_context), gen),
                                              LlmCall(AnalyzeRepoContents(repo_context), gen) >>
               /\ response' = IF gen.ok THEN Ok(gen.text) ELSE HTTPException(500)
    /\ UNCHANGED <<api_key_set, op, request, ghVars, fnVars>>

\* main.py:92-97: get_client().analyze_repo(repo_context); the ValueError of
\* GeminiClient() is answered by the except clause of line 94
analyze_repo(gen) ==
    /\ pc = "llm"
    /\ pc' = "done"
    /\ IF GetClientRaises
          THEN /\ response' = HTTPException(400)
               /\ UNCHANGED <<_client, llm_calls>>
          ELSE /\ _client' = ClientAfterGet
               /\ llm_calls' = Append(llm_calls, LlmCall(AnalyzeRepoContents(repo_context), gen))
               /\ response' = IF gen.ok THEN Ok(gen.text) ELSE HTTPException(500)
    /\ UNCHANGED <<api_key_set, op, request, ghVars, fnVars>>

\* the answer is sent; nothing of the request is kept but the cached client
respond ==
    /\ pc = "done"
    /\ pc' = "idle"
    /\ op' = "none"
    /\ request' = NoRequest
    /\ parsed' = NoMatch
    /\ default_branch' = <<>>
    /\ all_paths' = <<>>
    /\ key_file_paths' = <<>>
    /\ pending' = <<>>
    /\ file_contents' = <<>>
    /\ repo_context' = NoContext
    /\ host_calls' = <<>>
    /\ llm_calls' = <<>>
    /\ response' = NoResponse
    /\ UNCHANGED <<_client, api_key_set, fnVars>>

\* what generate_content may answer: a batch for a generation, a text otherwise
GenOutcomes == BackendOutcomes(Batches)

TextOutcomes == BackendOutcomes(PlainText)

\* a request arrives while none is in flight; a request in flight takes its next
\* step; the answer of a finished request is sent
Next ==
    \/ pc = "idle" /\ \E mode \in Modes, image \in Images, gen \in TextOutcomes :
          analyze(mode, image, gen)
    \/ pc = "idle" /\ \E image \in Images, gen \in TextOutcomes : transform(image, gen)
    \/ pc = "idle" /\ \E image \in OptionalImages, shapes \in ExistingShapeLists,
                          gen \in GenOutcomes :
          generate("draw", image, shapes, gen)
    \/ pc = "idle" /\ \E repo_url \in RepoUrls : github_analyze(repo_url)
    \/ pc = "meta" /\ \E resp \in MetaResponses : fetch_meta(resp)
    \/ pc = "tree" /\ \E resp \in TreeResponses : fetch_tree(resp)
    \/ pc = "files" /\ \E resp \in FileResponses : fetch_file(resp)
    \/ pc = "llm" /\ \E gen \in TextOutcomes : analyze_repo(gen)
    \/ respond

Spec == Init /\ [][Next]_vars

(***************************************************************************)
(* Pure-function harness for the selection and the listing.                *)
(***************************************************************************)
InitTree ==
    /\ RequestIdle
    /\ fn_pc = "in"
    /\ fn_url = <<>>
    /\ fn_parsed = NoMatch
    /\ fn_tree \in FnTrees
    /\ fn_summary = NoSummary

ApplySummarize ==
    /\ fn_pc = "in"
    /\ fn_pc' = "out"
    /\ fn_summary' = [key_file_paths |-> KeyFilePaths(fn_tree),
                      tasks |-> Tasks(KeyFilePaths(fn_tree)),
                      listing |-> Listing(AllPaths(fn_tree))]
    /\ UNCHANGED <<fn_url, fn_parsed, fn_tree, reqVars, ghVars>>

NextTree == ApplySummarize

SpecTree == InitTree /\ [][NextTree]_vars

(***************************************************************************)
(* Pure-function harness for parse_github_url.                             *)
(***************************************************************************)
InitParse ==
    /\ RequestIdle
    /\ fn_pc = "in"
    /\ fn_url \in Urls
    /\ fn_parsed = NoMatch
    /\ fn_tree = <<>>
    /\ fn_summary = NoSummary

ApplyParse ==
    /\ fn_pc = "in"
    /\ fn_pc' = "out"
    /\ fn_parsed' = parse_github_url(fn_url)
    /\ UNCHANGED <<fn_url, fn_tree, fn_summary, reqVars, ghVars>>

NextParse == ApplyParse

SpecParse == InitParse /\ [][NextParse]_vars

(***************************************************************************)
(* Properties.                                                             *)
(***************************************************************************)
\* owner and repository names a reference is formed from
RefNames == SeqsUpTo({"o", "r"}, MaxBody) \ {<<>>}

\* the input forms of one repository: https://github.com/o/r, github.com/o/r,
\* o/r, o/r.git and https://github.com/o/r.git
RefForms(o, r) ==
    LET pair == o \o <<"/">> \o r
    IN  { HttpsScheme \o GithubHost \o pair, GithubHost \o pair, pair, pair \o DotGit,
          HttpsScheme \o GithubHost \o pair \o DotGit }

\* C1: for every owner o and name r, parse_github_url returns (o, r) for each
\* of the input forms https://github.com/o/r, github.com/o/r, o/r, o/r.git and
\* https://github.com/o/r.git.
C1_AllFormsSamePair ==
    fn_pc = "out" =>
        \A o \in RefNames, r \in RefNames :
            fn_url \in RefForms(o, r) => fn_parsed = [ok |-> TRUE, owner |-> o, repo |-> r]

\* the request in flight is a repository analysis whose reference matches
\* neither grammar
MalformedReference ==
    /\ op = "github_analyze"
    /\ ~MatchUrlForm(RStrip(Strip(request.repo_url), {"/"})).ok
    /\ ~MatchPlainForm(RStrip(Strip(request.repo_url), {"/"})).ok

\* C2: a repository analysis whose reference string matches neither grammar is
\* answered with the invalid-reference error (400, from the ValueError) at once:
\* no request to the repository host and no call of the text-generation backend
\* is made in it.
C2_MalformedFailsBeforeAnyCall ==
    MalformedReference =>
        /\ pc = "done"
        /\ response = HTTPException(400)
        /\ host_calls = <<>>
        /\ llm_calls = <<>>
        /\ ~repo_context.built

\* C2 witness: the reference "/leading/slash" has been refused.
C2_Witness ==
    /\ MalformedReference
    /\ request.repo_url = <<"/", "l", "e", "a", "d", "i", "n", "g", "/", "s", "l", "a", "s", "h">>
    /\ pc = "done"

\* the input of the request in flight is malformed: an unknown analysis mode or
\* an unparseable repository reference
MalformedInput ==
    \/ op = "analyze" /\ request.mode \notin {"label", "cleanup", "suggest", "explain", "optimize"}
    \/ MalformedReference

\* C3: a failed request of any of the four operations is answered 4xx if and
\* only if its input is malformed; every other failure (repository host,
\* text-generation backend, construction of the backend client) is answered 5xx.
C3_ClientErrorIffMalformed ==
    (pc = "done" /\ response.status # 200) =>
        /\ response.status \in 400..499 <=> MalformedInput
        /\ ~MalformedInput => response.status \in 500..599

\* the positions of the log where the named endpoint was requested
CallsTo(endpoint) == {i \in 1..Len(host_calls) : host_calls[i].endpoint = endpoint}

\* the answer of a logged request is a success: a response came, with a 2xx
\* status and a body that is JSON
Succeeded(call) ==
    /\ call.resp.r.kind = "response"
    /\ call.resp.r.status \in 200..299
    /\ call.resp.r.json_ok

\* C4: in one summarize request the tree request is sent only after the
\* metadata request succeeded and a key-file request only after the tree request
\* succeeded; a metadata or tree request that does not succeed (a non-success
\* status, and likewise a transport error or an unreadable body) ends the
\* request with an error: no further host request is sent and no digest, not
\* even a partial one, is produced.
C4_HostCallsOrderedAndTerminal ==
    \A i \in 1..Len(host_calls) :
        /\ host_calls[i].endpoint = "trees" =>
              \E j \in 1..(i - 1) : host_calls[j].endpoint = "repos" /\ Succeeded(host_calls[j])
        /\ host_calls[i].endpoint = "contents" =>
              \E j \in 1..(i - 1) : host_calls[j].endpoint = "trees" /\ Succeeded(host_calls[j])
        /\ (host_calls[i].endpoint \in {"repos", "trees"} /\ ~Succeeded(host_calls[i])) =>
              /\ i = Len(host_calls)
              /\ pc = "done"
              /\ response.status \in 400..599
              /\ ~repo_context.built
              /\ file_contents = <<>>
              /\ llm_calls = <<>>

\* C4 witness: the metadata request succeeded and the tree request was answered 404.
C4_Witness ==
    /\ Len(host_calls) = 2
    /\ Succeeded(host_calls[1])
    /\ host_calls[2].endpoint = "trees"
    /\ host_calls[2].resp.r.status = 404
    /\ pc = "done"

\* the tree request of the request in flight succeeded and every selected key
\* file has been requested
KeyFilesDone ==
    /\ \E i \in CallsTo("trees") : Succeeded(host_calls[i])
    /\ pending = <<>>

\* the paths of the key-files section of the digest
DigestKeyFiles == {repo_context.key_files[i].path : i \in 1..Len(repo_context.key_files)}

\* the selected key files
SelectedKeyFiles == {Tasks(key_file_paths)[i] : i \in 1..Len(Tasks(key_file_paths))}

\* the selected key files whose request failed: a non-success status or a
\* raised exception (a transport error, a body that is no JSON)
FailedKeyFiles ==
    {host_calls[i].arg : i \in {k \in CallsTo("contents") :
        \/ host_calls[k].resp.r.kind = "error"
        \/ host_calls[k].resp.r.status # 200
        \/ ~host_calls[k].resp.r.json_ok}}

\* the selected key files whose request was answered 200 with a JSON body of
\* encoding base64 and a non-empty content
UsableKeyFiles ==
    {host_calls[i].arg : i \in {k \in CallsTo("contents") :
        /\ host_calls[k].resp.r.kind = "response"
        /\ host_calls[k].resp.r.status = 200
        /\ host_calls[k].resp.r.json_ok
        /\ host_calls[k].resp.body.encoding = "base64"
        /\ host_calls[k].resp.body.content # <<>>}}

\* the digest was produced and the summarizer raised no error
DigestProduced ==
    /\ repo_context.built
    /\ pc \in {"llm", "done"}
    /\ pc = "llm" => response = NoResponse
    /\ pc = "done" => llm_calls # <<>> \/ response = HTTPException(400)

C6_ListingCappedNoRepeat ==
    fn_pc = "out" =>
        /\ Len(fn_summary.listing) <= 200
        /\ \A i, j \in 1..Len(fn_summary.listing) :
              i # j => fn_summary.listing[i] # fn_summary.listing[j]

\* the text after the last "/" of path is the name
HasBaseName(path, name) ==
    /\ Len(path) >= Len(name)
    /\ SubSeq(path, Len(path) - Len(name) + 1, Len(path)) = name
    /\ Len(path) > Len(name) => path[Len(path) - Len(name)] = "/"

\* the base filename of path is, character for character, on the allow-list
OnAllowList(path) == \E name \in _KEY_FILES : HasBaseName(path, name)

FnTaskSet == {fn_summary.tasks[i] : i \in 1..Len(fn_summary.tasks)}

\* C7: for every tree the key files selected for fetching are at most 10, each
\* is an entry of the tree whose base filename is exactly (case-sensitively) on
\* the allow-list, and an entry whose base filename is not on it is never
\* selected, whatever its path.
C7_AtMostTenAllowListed ==
    fn_pc = "out" =>
        /\ Len(fn_summary.tasks) <= 10
        /\ Cardinality(FnTaskSet) = Len(fn_summary.tasks)
        /\ \A p \in FnTaskSet : OnAllowList(p) /\ \E i \in 1..Len(fn_tree) : fn_tree[i].path = p
        /\ \A i \in 1..Len(fn_tree) : ~OnAllowList(fn_tree[i].path) => fn_tree[i].path \notin FnTaskSet

\* C7 witness: a tree of more than 10 key files, of which 10 were selected.
C7_Witness ==
    /\ fn_pc = "out"
    /\ Len(fn_summary.key_file_paths) > 10
    /\ Len(fn_summary.tasks) = 10

\* entry i of the tree is a file named README.md
IsReadmeFile(i) == fn_tree[i].type = "blob" /\ HasBaseName(fn_tree[i].path, ReadmeName)

\* the allow-listed file entries before entry i, in tree order
KeyFilesBefore(i) ==
    {j \in 1..(i - 1) : fn_tree[j].type = "blob" /\ OnAllowList(fn_tree[j].path)}

\* C8 as stated: a file entry named README.md is in the key-file selection at
\* whatever depth, whatever the other entries of the tree and their order.
C8_ReadmeAlwaysSelected ==
    fn_pc = "out" =>
        \A i \in 1..Len(fn_tree) : IsReadmeFile(i) => fn_tree[i].path \in FnTaskSet

\* C8 as amended: a file entry named README.md is a key file at whatever depth,
\* whatever the other entries and their order; it is selected for fetching
\* exactly when fewer than 10 allow-listed file entries precede it in the tree.
C8_ReadmeSelectedWithinCap ==
    fn_pc = "out" =>
        \A i \in 1..Len(fn_tree) :
            IsReadmeFile(i) =>
                /\ \E k \in 1..Len(fn_summary.key_file_paths) :
                      fn_summary.key_file_paths[k] = fn_tree[i].path
                /\ fn_tree[i].path \in FnTaskSet <=> Cardinality(KeyFilesBefore(i)) < 10

\* C8 witness: a README.md four directories deep, after other key files, was selected.
C8_Witness ==
    /\ fn_pc = "out"
    /\ \E i \in 2..Len(fn_tree) :
          /\ IsReadmeFile(i)
          /\ Count(fn_tree[i].path, "/") >= 4
          /\ fn_tree[i].path \in FnTaskSet

\* C9: no request retries: in every request the text-generation backend is
\* called at most once and each repository-host endpoint and path is requested
\* at most once; a repository analysis calls the backend only with the digest
\* the summarizer built, and never when the summarizer failed.
C9_NoRetry ==
    /\ Len(llm_calls) <= 1
    /\ \A i, j \in 1..Len(host_calls) :
          i # j => <<host_calls[i].endpoint, host_calls[i].arg>> # <<host_calls[j].endpoint, host_calls[j].arg>>
    /\ (op = "github_analyze" /\ llm_calls # <<>>) =>
          /\ repo_context.built
          /\ llm_calls[1].contents.repo_context = repo_context
          /\ \A i \in CallsTo("repos") \cup CallsTo("trees") : Succeeded(host_calls[i])
    /\ (op = "github_analyze" /\ pc = "done" /\ ~repo_context.built) => llm_calls = <<>>

\* C9 witness: a repository analysis whose backend call failed ended after one
\* backend call and three host requests.
C9_Witness ==
    /\ op = "github_analyze"
    /\ pc = "done"
    /\ response = HTTPException(500)
    /\ Len(llm_calls) = 1
    /\ Len(host_calls) = 3

\* the batch adds a shape under an id of the snapshot, or adds two shapes under one id
HasDuplicateAdd(snapshot, batch) ==
    \E i \in 1..Len(batch) :
        /\ batch[i].action = "add"
        /\ \/ batch[i].id \in ShapeIds(snapshot)
           \/ \E j \in 1..Len(batch) : j # i /\ batch[j].action = "add" /\ batch[j].id = batch[i].id

\* the batch is one add under the id max(snapshot ids) + 1
IsSingleFreshAdd(snapshot, batch) ==
    /\ snapshot # <<>>
    /\ batch = <<[id |-> Max(ShapeIds(snapshot)) + 1, action |-> "add"]>>

\* C10: a batch produced for a snapshot that adds a shape under an id of the
\* snapshot, or under the id of another add of the batch, is rejected and never
\* returned to the caller as a valid result; a batch whose only operation is an
\* add under max(snapshot ids) + 1 is accepted.
C10_DuplicateAddRejected ==
    (op = "generate" /\ pc = "done" /\ llm_calls # <<>> /\ llm_calls[1].answer.ok) =>
        LET snapshot == request.existing_shapes
            batch == llm_calls[1].answer.text
        IN  /\ HasDuplicateAdd(snapshot, batch) => response.status # 200
            /\ IsSingleFreshAdd(snapshot, batch) => response = Ok(batch)

\* C11: in every generation request the smallest id for new shapes told to the
\* backend is max(ids of the supplied existing shapes) + 1 when shapes were
\* supplied, so it is greater than every id of the snapshot, and 0 when none
\* was; with or without an image in the request.
C11_NextIdAboveSnapshot ==
    (op = "generate" /\ llm_calls # <<>>) =>
        LET told == MinNewShapeId(llm_calls[1].contents)
            ids == {request.existing_shapes[i].id : i \in 1..Len(request.existing_shapes)}
        IN  /\ ids # {} => told \in Int /\ \A id \in ids : told > id
            /\ ids # {} => \E id \in ids : told = id + 1
            /\ ids = {} => told = 0


\* the paths of the summarized tree and the lines of its listing
TreePaths == {fn_tree[i].path : i \in 1..Len(fn_tree)}

ListingLines == {fn_summary.listing[i] : i \in 1..Len(fn_summary.listing)}

\* how many lines of the listing read line
Occurrences(line) ==
    Cardinality({i \in 1..Len(fn_summary.listing) : fn_summary.listing[i] = line})

\* the number of "/"-separated segments of path
Segments(path) == Count(path, "/") + 1

\* the text of path in front of its third "/", followed by the ellipsis marker
Collapsed(path) ==
    LET k == CHOOSE k \in 1..Len(path) :
                 path[k] = "/" /\ Count(SubSeq(path, 1, k), "/") = 3
    IN  SubSeq(path, 1, k - 1) \o <<"/", ".", ".", ".">>

\* C12: in the directory listing a tree path is listed in full only if it has
\* at most 3 path segments; every path of more than 3 segments is never listed
\* in full and is represented only by its first 3 segments plus the ellipsis
\* marker, exactly once.
C12_OverThreeSegmentsCollapsed ==
    fn_pc = "out" =>
        \A path \in TreePaths :
            /\ path \in ListingLines => Segments(path) <= 3
            /\ Segments(path) > 3 =>
                  path \notin ListingLines /\ Occurrences(Collapsed(path)) = 1

\* C12, amended: every line of the listing has at most 3 "/" and is a tree
\* path (so one of at most 4 segments) or the first 3 segments plus the
\* ellipsis marker of a tree path of more than 4 segments; and unless the
\* listing was cut at 200 lines, every path of at most 4 segments is listed
\* in full and every path of more than 4 segments is represented only by its
\* collapsed ancestor, which is listed once, or twice when the tree itself
\* holds a path of that very name.
C12_OverFourSegmentsCollapsed ==
    fn_pc = "out" =>
        /\ \A line \in ListingLines :
              /\ Count(line, "/") <= 3
              /\ \/ line \in TreePaths
                 \/ \E path \in TreePaths : Segments(path) > 4 /\ line = Collapsed(path)
        /\ \A path \in TreePaths : Segments(path) > 4 => path \notin ListingLines
        /\ Len(fn_summary.listing) < 200 =>
              \A path \in TreePaths :
                  /\ Segments(path) <= 4 => Occurrences(path) >= 1
                  /\ Segments(path) > 4 =>
                        Occurrences(Collapsed(path)) =
                            IF Collapsed(path) \in TreePaths THEN 2 ELSE 1

\* a tree with a path of 4 segments listed in full and a path of more than 4
\* segments collapsed to its ancestor, listed once
C12_Witness ==
    /\ fn_pc = "out"
    /\ \E path, deep \in TreePaths :
          /\ Segments(path) = 4
          /\ path \in ListingLines
          /\ Segments(deep) > 4
          /\ deep \notin ListingLines
          /\ Occurrences(Collapsed(deep)) = 1


\* len(text.encode("utf-8")): the bytes of the characters of text, a character
\* taking 1 to 4 bytes
Utf8Len(text) ==
    Len(text) + Cardinality({i \in 1..Len(text) : text[i] = 2})
              + 2 * Cardinality({i \in 1..Len(text) : text[i] = 3})
              + 3 * Cardinality({i \in 1..Len(text) : text[i] = 4})

\* a is a prefix of b
IsPrefix(a, b) == Len(a) <= Len(b) /\ SubSeq(b, 1, Len(a)) = a

\* the decoded text the host answered for the key file at path
DecodedTexts(path) ==
    {host_calls[i].resp.body.content : i \in {k \in CallsTo("contents") :
        host_calls[k].arg = path /\ FileStored(host_calls[k].resp)}}

\* C13: the content of every fetched key file placed in the digest takes at
\* most 4000 bytes in UTF-8, multi-byte characters included, and is a prefix
\* of the file's decoded text.
C13_ContentWithinByteLimit ==
    repo_context.built =>
        \A i \in 1..Len(repo_context.key_files) :
            LET file == repo_context.key_files[i]
            IN  /\ Utf8Len(file.content) <= 4000
                /\ \E text \in DecodedTexts(file.path) : IsPrefix(file.content, text)

=============================================================================
